---- MODULE Spec2Model ----
(***************************************************************************)
(* The JSON-file-backed stores of ComfyUI-Video-FPS-Chunker and the nodes  *)
(* built on them:                                                          *)
(*   ImageDatabase / VideoDatabase   (load_image_batch.py,                 *)
(*                                    load_video_batch.py): cursor stores  *)
(*   ProcessedVideosDB               (check_video_processed.py): the cache *)
(*   LoadImageBatch / LoadVideoBatch execute, CheckVideoProcessed.execute, *)
(*   VideoFPSChunker.execute,                                              *)
(* and the nodes that keep no store: the chunk loop of VideoFPSChunker,    *)
(* ConcatenateVideosFromDirectory (concatenate_videos.py) and the two      *)
(* accumulators (image_batch_accumulator.py).                              *)
(*                                                                         *)
(* A handler is one action.  What a handler reads from outside the store   *)
(* (does the path exist, how many files the glob found, the outcome of     *)
(* each write of the JSON file) is an input of the action.  The variables  *)
(* durable, run, wlen, dlen, marked, last, lastCache, persisted and race    *)
(* are history variables: they record what the handlers did and never      *)
(* influence them.                                                         *)
(***************************************************************************)
EXTENDS Integers, Sequences, FiniteSets, TLC

\* ---------------------------------------------------------------- bounds
MaxLen == 3
MaxRun == 4

MaxFrames == 2
MaxFpc == 2

\* The chunk loop: frame counts and frames_per_chunk values.
MaxPlanFrames == 9
MaxPlanFpc == 4

\* The largest counter an output file of the concatenation node gets.
MaxCounter == 3

\* The accumulator nodes: frames of a new batch, frames of the accumulated
\* batch.
MaxBatch == 2
MaxAccFrames == 4

\* The calls of one accumulation that add a batch.
MaxAdds == 3

\* An execute call saves at most four times: three inserts of the reset in
\* BatchImageLoader.__init__ and the insert of get_next_image.
SavesPerCall == 4

Labels == {"L1", "L2"}
Paths == {"pA", "pB"}
Patterns == {"g1", "g2"}
Hashes == {"h1", "h2"}
\* The output_dir inputs of VideoFPSChunker: two directories and a symbolic
\* link "lnk" to the first.
OutDirs == {"a", "b", "lnk"}
CursorStores == {"image", "video"}
Stores == CursorStores \cup {"processed"}

\* The backing file of each store: IMAGE_BATCH_DB_PATH, VIDEO_BATCH_DB_PATH
\* and PROCESSED_VIDEOS_DB_PATH, all in the output directory.
BackingFileShared(s) ==
    IF s = "processed" THEN "processed_videos.json" ELSE "image_batch_state.json"
BackingFile(s) ==
    CASE s = "image" -> "image_batch_state.json"
      [] s = "video" -> "video_batch_state.json"
      [] s = "processed" -> "processed_videos.json"
Files == {BackingFile(s) : s \in Stores}

\* Python's None, as returned by dict.get / ImageDatabase.get without default.
NoneVal == "None"

\* ----------------------------------------------------------- JSON values
\* A JSON value as json.load returns it: a dict (kind "object", its content
\* in doc), or one of the values that are not dicts.
JObject(d) == [kind |-> "object", doc |-> d]
EmptyData == JObject(<<>>)

\* The backing file: absent, present but unreadable, present with text that
\* is not JSON (also an empty or cut-off file), or present with a JSON value.
MissingFile == [st |-> "missing", val |-> EmptyData]
MalformedFile == [st |-> "malformed", val |-> EmptyData]
JsonFile(v) == [st |-> "json", val |-> v]

\* What json.load returns for a file that holds valid JSON which is not an
\* object: null, the empty list [], a number.
JNull == [kind |-> "null", doc |-> EmptyData.doc]
JArray == [kind |-> "array", doc |-> EmptyData.doc]
JNumber == [kind |-> "number", doc |-> EmptyData.doc]

\* A file that exists and that open(filepath, 'r') cannot read.
UnreadableFile == [st |-> "unreadable", val |-> EmptyData]

\* ImageDatabase.load / VideoDatabase.load / ProcessedVideosDB.load:
\* self.data = json.load(f) when the file exists and parses, {} otherwise.
LoadAlwaysEmpty(file) == EmptyData
Load(file) == IF file.st = "json" THEN file.val ELSE EmptyData

\* ImageDatabase.save / VideoDatabase.save / ProcessedVideosDB.save.
\*   ok          : makedirs, open(.., 'w') and json.dump all succeed
\*   failEarly   : makedirs or open raises; the file is untouched
\*   failPartial : open(.., 'w') has truncated the file and json.dump (or
\*                 the flush at close) raises: the file is empty or cut off
\* The exception is caught in every case.
SaveMerge(file, data, outcome) ==
    CASE outcome = "ok" ->
            JsonFile(JObject(data.doc @@ (IF file.st = "json" THEN file.val.doc
                                          ELSE EmptyData.doc)))
      [] outcome = "failEarly" -> file
      [] OTHER -> MalformedFile
Save(file, data, outcome) ==
    CASE outcome = "ok" -> JsonFile(data)
      [] outcome = "failEarly" -> file
      [] OTHER -> MalformedFile

\* ImageDatabase.get / VideoDatabase.get
Get(data, category, key, default) ==
    IF category \notin DOMAIN data.doc THEN default
    ELSE IF key \in DOMAIN data.doc[category] THEN data.doc[category][key]
    ELSE default

\* "category not in self.data" raises TypeError when self.data is None or a
\* number; "self.data[category] = {}" raises it for every value that is
\* not a dict.
GetRaises(data) == data.kind \in {"null", "number"}
InsertRaises(data) == data.kind # "object"

\* The in-memory part of ImageDatabase.insert / VideoDatabase.insert
Insert(data, category, key, value) ==
    LET d0 == IF category \in DOMAIN data.doc
              THEN data.doc
              ELSE (category :> <<>>) @@ data.doc
    IN JObject([d0 EXCEPT ![category] = (key :> value) @@ @])

\* A store instance while a handler runs: the in-memory data, the file, the
\* save attempts made so far, and the outcomes the attempts will have: the
\* first okSaves attempts of the call succeed and every later one fails in
\* the way named by failure (a disk that starts failing keeps failing until
\* the call returns).
Outcome(db) == IF Len(db.log) < db.okSaves THEN "ok" ELSE db.failure

OpenDb(data, file, okSaves, failure) ==
    [data |-> data, file |-> file, log |-> <<>>,
     okSaves |-> okSaves, failure |-> failure]

\* self.save() on the instance.
DbSave(db) ==
    LET f == Save(db.file, db.data, Outcome(db))
    IN [db EXCEPT !.file = f,
                  !.log = Append(@, [outcome |-> Outcome(db), after |-> f])]

\* ImageDatabase.insert / VideoDatabase.insert: update self.data, then
\* self.save().
DbInsertNoSave(db, category, key, value) ==
    [db EXCEPT !.data = Insert(@, category, key, value)]
DbInsert(db, category, key, value) ==
    DbSave([db EXCEPT !.data = Insert(@, category, key, value)])

\* Whether the file holds all of the instance's data when the call ends.
Durable(log, before) ==
    IF log = <<>> THEN before ELSE log[Len(log)].outcome = "ok"

\* The data of the latest save that succeeded, after a call.
PersistedAfter(log, before) ==
    LET oks == {i \in DOMAIN log : log[i].outcome = "ok"}
    IN IF oks = {} THEN before
       ELSE log[CHOOSE i \in oks : \A j \in oks : j <= i].after.val

\* What the save attempts of a call did to the file: "kept" (none touched
\* it), "written" (the last one that touched it wrote a whole document) or
\* "cut" (the last one that touched it left it truncated).
FileEffect(log) ==
    LET touched == {i \in DOMAIN log : log[i].outcome # "failEarly"}
    IN IF touched = {} THEN "kept"
       ELSE IF log[CHOOSE i \in touched : \A j \in touched : j <= i].outcome = "ok"
       THEN "written" ELSE "cut"

\* ------------------------------------------------------------- variables
VARIABLES
    mem,      \* mem[s]: self.data of the store instance of the process
    disk,     \* disk[f]: the content of the file named f
    durable,  \* durable[s]: the last save attempt on s succeeded (or none was needed)
    run,      \* run[<<s, l>>]: the calls on label l since its identity last changed
    wlen,     \* wlen[<<s, l>>]: the sequence length seen by the call that wrote l's counter in mem[s]
    dlen,     \* dlen[<<s, l>>]: the same for l's counter in the file
    last,     \* the last LoadImageBatch / LoadVideoBatch call: its inputs and what it returned
    dirs,     \* dirs[d]: what the file system holds at chunk directory d
    marked,   \* marked[h]: the directory of the instance's latest mark_processed(h, ..), until h is removed
    lastCache, \* the last CheckVideoProcessed / VideoFPSChunker call
    persisted, \* persisted[s]: the data of the latest save of s that succeeded
    peer,      \* peer[s]: self.data of the store instance of a second process
    race,      \* the last write of either process to a file both have open
    plan,      \* the chunk loop of VideoFPSChunker.execute: its inputs and the chunks planned so far
    concat,    \* the output directory of ConcatenateVideosFromDirectory and its last call
    acc        \* the last call of an accumulator node: its inputs and outputs

vars == <<mem, disk, durable, run, wlen, dlen, last, dirs, marked, lastCache,
          persisted, peer, race, plan, concat, acc>>
cursorVars == <<run, wlen, dlen, last>>
cacheVars == <<dirs, marked, lastCache>>
peerVars == <<peer, race>>
nodeVars == <<plan, concat, acc>>

Keys == CursorStores \X Labels

\* The three values stored for a label (-1 / None when absent).
Triple(data, label) ==
    [counter |-> Get(data, "Batch Counters", label, -1),
     path |-> Get(data, "Batch Paths", label, NoneVal),
     pattern |-> Get(data, "Batch Patterns", label, NoneVal)]

NoTriple == [counter |-> -1, path |-> NoneVal, pattern |-> NoneVal]

\* No run of calls is being followed for a label.
NoRun ==
    [start |-> "none", path |-> NoneVal, pattern |-> NoneVal,
     k |-> 0, n |-> 0, idx |-> 0]

\* No write to a shared file has been followed.
NoRace == [by |-> "none", ok |-> FALSE, lost |-> {}]

NoLast ==
    [op |-> "none", store |-> "none", label |-> "none", n |-> 0,
     out |-> "none", idx |-> -1, cur |-> -1]

\* --------------------------------------------------- LoadImageBatch node
\* BatchImageLoader.__init__ / BatchVideoLoader.__init__ (lines 163-176):
\* compare the stored path and pattern with the call's; on a difference
\* reset the counter and record the new identity with three inserts.
IdentityChangedPathOnly(data, label, path, pattern) ==
    Get(data, "Batch Paths", label, NoneVal) # path
IdentityChanged(data, label, path, pattern) ==
    \/ Get(data, "Batch Paths", label, NoneVal) # path
    \/ Get(data, "Batch Patterns", label, NoneVal) # pattern

LoaderInitNoReset(db, label, path, pattern) ==
    IF IdentityChanged(db.data, label, path, pattern)
    THEN LET b == DbInsert(db, "Batch Paths", label, path)
             c == DbInsert(b, "Batch Patterns", label, pattern)
         IN [db |-> c, index |-> Get(db.data, "Batch Counters", label, 0)]
    ELSE [db |-> db, index |-> Get(db.data, "Batch Counters", label, 0)]
LoaderInitCounterOnly(db, label, path, pattern) ==
    IF IdentityChanged(db.data, label, path, pattern)
    THEN [db |-> DbInsert(db, "Batch Counters", label, 0), index |-> 0]
    ELSE [db |-> db, index |-> Get(db.data, "Batch Counters", label, 0)]
LoaderInit(db, label, path, pattern) ==
    IF IdentityChanged(db.data, label, path, pattern)
    THEN LET a == DbInsert(db, "Batch Counters", label, 0)
             b == DbInsert(a, "Batch Paths", label, path)
             c == DbInsert(b, "Batch Patterns", label, pattern)
         IN [db |-> c, index |-> 0]
    ELSE [db |-> db, index |-> Get(db.data, "Batch Counters", label, 0)]

\* get_next_image / get_next_video (lines 198-214): the index served and
\* the index stored for the next call.
ServedIndexNoClamp(index, n) == index
ServedIndex(index, n) == IF index >= n THEN 0 ELSE index

NextStoredStuck(served, n) == served
NextStored(served, n) == IF served + 1 >= n THEN 0 ELSE served + 1

GetNext(ld, label, n) ==
    LET served == ServedIndex(ld.index, n)
        nxt == NextStored(served, n)
    IN [db |-> DbInsert(ld.db, "Batch Counters", label, nxt),
        served |-> served, index |-> nxt]

\* The history variable run[<<s, label>>] after a call that returned index
\* served.  A run starts with a call whose path or pattern differs from the
\* stored ones ("fresh" when nothing was stored for the label, "reset"
\* otherwise) and goes on while the calls keep its path, pattern and
\* length, up to MaxRun calls.  k counts its calls
\* and idx is the index the last of them returned.
RunAfter(r, pre, path, pattern, n, served) ==
    IF /\ r.start # "none" /\ r.path = path /\ r.pattern = pattern
       /\ r.n = n /\ r.k < MaxRun
    THEN [r EXCEPT !.start = IF @ = "armed" THEN "resumed" ELSE @,
                   !.k = @ + 1, !.idx = served]
    ELSE IF pre.path # path \/ pre.pattern # pattern
    THEN [start |-> IF pre = NoTriple THEN "fresh" ELSE "reset",
          path |-> path, pattern |-> pattern,
          k |-> 1, n |-> n, idx |-> served]
    ELSE NoRun

\* The history variables wlen and dlen after a call on <<s, label>> that saw
\* a sequence of length n, wrote the label's counter (wrote) and made the
\* save attempts in log.
WlenAfter(s, label, n, wrote) ==
    [wlen EXCEPT ![<<s, label>>] = IF wrote THEN n ELSE @]

DlenAfter(s, label, n, wrote, log) ==
    [k \in Keys |->
        IF k[1] # s \/ FileEffect(log) = "kept" THEN dlen[k]
        ELSE IF FileEffect(log) = "cut" THEN -1
        ELSE WlenAfter(s, label, n, wrote)[k]]

\* current_index = loader.index - 1, and len(loader.image_paths) - 1 when
\* that is negative (lines 146-148); index is loader.index after
\* get_next_image.
CurrentIndexNoWrap(index, n) == index - 1
CurrentIndex(index, n) == IF index - 1 < 0 THEN n - 1 ELSE index - 1

\* len(loader.image_paths) == 0, the test before ValueError("No images found")
NoImagesFoundNever(n) == FALSE
NoImagesFound(n) == n = 0

\* The number of saves a call makes: three for the reset, one for the advance.
SavesMade(changed, n) == (IF changed THEN 3 ELSE 0) + (IF n > 0 THEN 1 ELSE 0)

\* LoadImageBatch.execute / LoadVideoBatch.execute on store s.
\*   pathExists      : os.path.exists(path)
\*   n               : len(loader.image_paths), what the glob found
\*   okSaves, failure: the outcomes of the saves the call makes
Execute(s, label, path, pattern, pathExists, n, okSaves, failure) ==
    LET key == <<s, label>>
        pre == Triple(mem[s], label)
        changed == pre.path # path \/ pre.pattern # pattern
        call == [op |-> "execute", store |-> s, label |-> label, n |-> n,
                 out |-> "PathMissing", idx |-> -1, cur |-> -1]
    IN IF ~pathExists
       THEN \* raise ValueError("Path does not exist"): the store is not touched
            /\ n = 0 /\ okSaves = 0 /\ failure = "failEarly"
            /\ last' = call
            /\ UNCHANGED <<mem, disk, durable, persisted, peerVars, nodeVars, run, wlen, dlen, cacheVars>>
       ELSE \* a call that makes m saves has the outcome plans "the first
            \* okSaves succeed", okSaves in 0..m, with either failure after
            /\ okSaves <= SavesMade(changed, n)
            /\ okSaves = SavesMade(changed, n) => failure = "failEarly"
            /\ \E ld \in {LoaderInit(OpenDb(mem[s], disk[BackingFile(s)], okSaves, failure),
                                      label, path, pattern)} :
               \E res \in {IF NoImagesFound(n)
                           THEN \* raise ValueError("No images found")
                                [db |-> ld.db, served |-> -1, index |-> ld.index]
                           ELSE GetNext(ld, label, n)} :
                /\ mem' = [mem EXCEPT ![s] = res.db.data]
                /\ disk' = [disk EXCEPT ![BackingFile(s)] = res.db.file]
                /\ durable' = [durable EXCEPT ![s] = Durable(res.db.log, @)]
                /\ persisted' = [persisted EXCEPT ![s] = PersistedAfter(res.db.log, @)]
                /\ UNCHANGED <<peerVars, nodeVars>>
                /\ last' = [call EXCEPT
                               !.out = IF NoImagesFound(n) THEN "EmptySequence"
                                       ELSE "index",
                               !.idx = res.served,
                               !.cur = IF NoImagesFound(n) THEN -1
                                       ELSE CurrentIndex(res.index, n)]
                /\ wlen' = WlenAfter(s, label, n, res.db.log # <<>>)
                /\ dlen' = DlenAfter(s, label, n, res.db.log # <<>>, res.db.log)
                /\ run' = [run EXCEPT ![key] =
                             IF n = 0 THEN NoRun
                             ELSE RunAfter(@, pre, path, pattern, n, res.served)]
                /\ UNCHANGED cacheVars

\* ------------------------------------------------- the processed-videos cache
\* A chunk directory is named by its canonical path: the real output
\* directory and the video hash.
RealDirs == {"a", "b"}
Dirs == RealDirs \X Hashes
NoDir == <<"none", "none">>

\* os.path.realpath of an output directory.
RealPath(o) == IF o = "lnk" THEN "a" ELSE o

\* chunk_base_dir = os.path.join(output_base, output_dir, video_hash), and
\* the directory it names.
ChunkBaseDir(o, h) == <<RealPath(o), h>>

\* What the file system holds at a path: nothing, a regular file, or a
\* directory with the chunk files <i>.mp4, i in chunks.
Missing == [kind |-> "missing", chunks |-> {}]
RegularFile == [kind |-> "file", chunks |-> {}]
Directory(c) == [kind |-> "dir", chunks |-> c]
ChunkIds == 0..(MaxFrames - 1)

\* What the file system holds at the path a store entry names.
AtPath(fs, d) == IF d \in Dirs THEN fs[d] ELSE Missing

\* The number of .mp4 files of a path that is a directory, -1 otherwise.
LiveCount(f) == IF f.kind = "dir" THEN Cardinality(f.chunks) ELSE -1

\* ProcessedVideosDB.is_processed / get_chunk_dir
IsProcessed(data, h) == h \in DOMAIN data.doc
GetChunkDir(data, h) == IF h \in DOMAIN data.doc THEN data.doc[h] ELSE NoDir

\* ProcessedVideosDB.mark_processed: self.data[video_hash] = chunk_dir, save.
MarkProcessedNoWrite(db, h, d) == db
MarkProcessed(db, h, d) ==
    DbSave([db EXCEPT !.data = JObject((h :> d) @@ @.doc)])

\* if video_hash in PROCESSED_DB.data: del ...; PROCESSED_DB.save()
RemoveStaleKeep(db, h) == db
RemoveStale(db, h) ==
    IF h \in DOMAIN db.data.doc
    THEN DbSave([db EXCEPT !.data =
                    JObject([x \in (DOMAIN @.doc) \ {h} |-> @.doc[x]])])
    ELSE db

\* os.path.exists(d) and os.path.isdir(d), then
\* len([f for f in os.listdir(d) if f.endswith('.mp4')]) > 0
ChunksFoundAnyDir(f) == f.kind # "missing"
ChunksFound(f) == f.kind = "dir" /\ Cardinality(f.chunks) > 0

\* CheckVideoProcessed.execute from "Check if processed" on (lines 108-132),
\* for a video whose hash is h.
CheckResolve(db, fs, h) ==
    IF IsProcessed(db.data, h)
    THEN LET d == GetChunkDir(db.data, h)
         IN IF ChunksFound(AtPath(fs, d))
            THEN [db |-> db, hit |-> TRUE, dir |-> d,
                  count |-> Cardinality(AtPath(fs, d).chunks)]
            ELSE [db |-> RemoveStale(db, h), hit |-> FALSE, dir |-> NoDir, count |-> 0]
    ELSE [db |-> db, hit |-> FALSE, dir |-> NoDir, count |-> 0]

\* The cache check of VideoFPSChunker.execute (lines 158-176).
ChunkerResolveKeepStale(db, fs, h) ==
    IF IsProcessed(db.data, h)
    THEN LET d == GetChunkDir(db.data, h)
         IN IF ChunksFound(AtPath(fs, d))
            THEN [db |-> db, hit |-> TRUE, dir |-> d,
                  count |-> Cardinality(AtPath(fs, d).chunks)]
            ELSE [db |-> db, hit |-> FALSE, dir |-> NoDir, count |-> 0]
    ELSE [db |-> db, hit |-> FALSE, dir |-> NoDir, count |-> 0]
ChunkerResolve(db, fs, h) ==
    IF IsProcessed(db.data, h)
    THEN LET d == GetChunkDir(db.data, h)
         IN IF ChunksFound(AtPath(fs, d))
            THEN [db |-> db, hit |-> TRUE, dir |-> d,
                  count |-> Cardinality(AtPath(fs, d).chunks)]
            ELSE [db |-> RemoveStale(db, h), hit |-> FALSE, dir |-> NoDir, count |-> 0]
    ELSE [db |-> db, hit |-> FALSE, dir |-> NoDir, count |-> 0]

\* A cache call as lastCache records it.  known, rec and live describe the
\* state the call found: whether the hash had an entry, the directory the
\* entry named and LiveCount of that directory; mk and mklive do the same
\* for marked[h].  hit, dir and count are what the resolve step answered,
\* ret and total the directory and the number the node returned;
\* gone, fileHas and saveOk describe the store right after the resolve step:
\* the hash has no entry in memory, the file holds a document with the hash,
\* every save of the step succeeded.  out is how the call ended.
NoCall ==
    [op |-> "none", hash |-> "none", out |-> "none",
     known |-> FALSE, rec |-> NoDir, live |-> -1, mk |-> NoDir, mklive |-> -1,
     hit |-> FALSE, dir |-> NoDir, count |-> 0, ret |-> NoDir,
     gone |-> TRUE, fileHas |-> FALSE, saveOk |-> TRUE, total |-> 0]

FileHas(file, h) == file.st = "json" /\ h \in DOMAIN file.val.doc

Found(op, h) ==
    [NoCall EXCEPT !.op = op, !.hash = h,
        !.known = h \in DOMAIN mem["processed"].doc,
        !.rec = IF h \in DOMAIN mem["processed"].doc
                THEN mem["processed"].doc[h] ELSE NoDir,
        !.live = IF h \in DOMAIN mem["processed"].doc
                 THEN LiveCount(AtPath(dirs, mem["processed"].doc[h])) ELSE -1,
        !.mk = marked[h],
        !.mklive = LiveCount(AtPath(dirs, marked[h]))]

Resolved(call, r) ==
    [call EXCEPT !.hit = r.hit, !.dir = r.dir, !.count = r.count,
        !.gone = call.hash \notin DOMAIN r.db.data.doc,
        !.fileHas = FileHas(r.db.file, call.hash),
        !.saveOk = \A i \in DOMAIN r.db.log : r.db.log[i].outcome = "ok"]

\* marked[h] after a resolve step: a stale resolve (the hash had an entry
\* and the step did not answer Processed) ends the round trip.
MarkedAfter(m, data, h, r) ==
    IF h \in DOMAIN data.doc /\ ~r.hit THEN NoDir ELSE m

\* CheckVideoProcessed.execute.
\*   isPath : video.get_stream_source() is a str (a file path), not a BytesIO
\*   h      : the first 16 hex digits of the SHA-256 of the file
CheckExecute(isPath, h, okSaves, failure) ==
    IF ~isPath
    THEN \* return io.NodeOutput("", False) without hashing
         /\ okSaves = 0 /\ failure = "failEarly"
         /\ lastCache' = [NoCall EXCEPT !.op = "check", !.out = "NotHashed"]
         /\ UNCHANGED <<mem, disk, durable, persisted, peerVars, nodeVars, dirs, marked, cursorVars>>
    ELSE \E r \in {CheckResolve(OpenDb(mem["processed"], disk[BackingFile("processed")],
                                        okSaves, failure), dirs, h)} :
         /\ okSaves <= Len(r.db.log)
         /\ okSaves = Len(r.db.log) => failure = "failEarly"
         /\ mem' = [mem EXCEPT !["processed"] = r.db.data]
         /\ disk' = [disk EXCEPT ![BackingFile("processed")] = r.db.file]
         /\ durable' = [durable EXCEPT !["processed"] = Durable(r.db.log, @)]
         /\ persisted' = [persisted EXCEPT !["processed"] = PersistedAfter(r.db.log, @)]
         /\ UNCHANGED <<peerVars, nodeVars>>
         /\ marked' = [marked EXCEPT ![h] = MarkedAfter(@, mem["processed"], h, r)]
         /\ lastCache' = [Resolved(Found("check", h), r) EXCEPT
                             !.out = IF r.hit THEN "Processed" ELSE "NotProcessed",
                             !.ret = r.dir]
         /\ UNCHANGED <<dirs, cursorVars>>

\* num_chunks = (total_frames + frames_per_chunk - 1) // frames_per_chunk
NumChunks(totalFrames, fpc) == (totalFrames + fpc - 1) \div fpc

\* What stops VideoFPSChunker.execute between the cache check and
\* mark_processed: ffprobe fails, the extraction of a chunk fails, or the
\* chunk directory holds no .mp4 file after the loop.
WorkFailedProbeOnly(probed, extracted, num, chunks) == ~probed
WorkFailed(probed, extracted, num, chunks) ==
    ~probed \/ extracted < num \/ chunks = {}

\* VideoFPSChunker.execute for a video whose hash is h.
\*   ffmpeg      : get_ffmpeg_path() finds a binary
\*   o, fpc      : the inputs output_dir and frames_per_chunk
\*   probed      : ffprobe succeeds; totalFrames is the count it reports
\*   extracted   : the number of chunks ffmpeg extracts before one fails
\*                 (all of them when extracted = num_chunks)
ChunkerExecute(ffmpeg, h, o, fpc, probed, totalFrames, extracted, okSaves, failure) ==
    LET base == ChunkBaseDir(o, h)
        num == NumChunks(totalFrames, fpc)
        call == Found("chunker", h)
    IN IF ~ffmpeg
       THEN \* raise RuntimeError("FFmpeg not found"), before the hash is taken
            /\ ~probed /\ totalFrames = 0 /\ extracted = 0 /\ fpc = 1 /\ o = "a"
            /\ okSaves = 0 /\ failure = "failEarly"
            /\ lastCache' = [NoCall EXCEPT !.op = "chunker", !.out = "NoFfmpeg"]
            /\ UNCHANGED <<mem, disk, durable, persisted, peerVars, nodeVars, dirs, marked, cursorVars>>
       ELSE \E r \in {ChunkerResolve(OpenDb(mem["processed"], disk[BackingFile("processed")],
                                             okSaves, failure), dirs, h)} :
            IF r.hit
            THEN \* return the existing directory and the number of its chunks
                 /\ ~probed /\ totalFrames = 0 /\ extracted = 0 /\ fpc = 1 /\ o = "a"
                 /\ okSaves = 0 /\ failure = "failEarly"
                 /\ lastCache' = [Resolved(call, r) EXCEPT !.out = "Processed",
                                                           !.ret = r.dir, !.total = r.count]
                 /\ UNCHANGED <<mem, disk, durable, persisted, peerVars, nodeVars, dirs, marked, cursorVars>>
            ELSE IF dirs[base].kind = "file"
            THEN \* os.makedirs(chunk_base_dir, exist_ok=True) raises FileExistsError
                 /\ ~probed /\ totalFrames = 0 /\ extracted = 0 /\ fpc = 1
                 /\ okSaves <= Len(r.db.log)
                 /\ okSaves = Len(r.db.log) => failure = "failEarly"
                 /\ mem' = [mem EXCEPT !["processed"] = r.db.data]
                 /\ disk' = [disk EXCEPT ![BackingFile("processed")] = r.db.file]
                 /\ durable' = [durable EXCEPT !["processed"] = Durable(r.db.log, @)]
                 /\ persisted' = [persisted EXCEPT !["processed"] = PersistedAfter(r.db.log, @)]
                 /\ UNCHANGED <<peerVars, nodeVars>>
                 /\ marked' = [marked EXCEPT ![h] = MarkedAfter(@, mem["processed"], h, r)]
                 /\ lastCache' = [Resolved(call, r) EXCEPT !.out = "MakedirsFailed"]
                 /\ UNCHANGED <<dirs, cursorVars>>
            ELSE IF WorkFailed(probed, extracted, num,
                               dirs[base].chunks \cup {i \in ChunkIds : i < extracted})
            THEN \* raise RuntimeError: ffprobe failed, an extraction failed, or
                 \* "No chunks were created"
                 /\ probed \/ (totalFrames = 0 /\ extracted = 0 /\ fpc = 1)
                 /\ extracted <= num
                 /\ okSaves <= Len(r.db.log)
                 /\ okSaves = Len(r.db.log) => failure = "failEarly"
                 /\ mem' = [mem EXCEPT !["processed"] = r.db.data]
                 /\ disk' = [disk EXCEPT ![BackingFile("processed")] = r.db.file]
                 /\ durable' = [durable EXCEPT !["processed"] = Durable(r.db.log, @)]
                 /\ persisted' = [persisted EXCEPT !["processed"] = PersistedAfter(r.db.log, @)]
                 /\ UNCHANGED <<peerVars, nodeVars>>
                 /\ marked' = [marked EXCEPT ![h] = MarkedAfter(@, mem["processed"], h, r)]
                 /\ dirs' = [dirs EXCEPT ![base] =
                                Directory(@.chunks \cup {i \in ChunkIds : i < extracted})]
                 /\ lastCache' = [Resolved(call, r) EXCEPT !.out =
                                     IF ~probed THEN "ProbeFailed"
                                     ELSE IF extracted < num THEN "ExtractFailed"
                                     ELSE "NoChunks"]
                 /\ UNCHANGED cursorVars
            ELSE \* every chunk extracted: mark_processed, return the directory
                 \E m \in {MarkProcessed(r.db, h, base)} :
                 /\ extracted = num
                 /\ okSaves <= Len(m.log)
                 /\ okSaves = Len(m.log) => failure = "failEarly"
                 /\ mem' = [mem EXCEPT !["processed"] = m.data]
                 /\ disk' = [disk EXCEPT ![BackingFile("processed")] = m.file]
                 /\ durable' = [durable EXCEPT !["processed"] = Durable(m.log, @)]
                 /\ persisted' = [persisted EXCEPT !["processed"] = PersistedAfter(m.log, @)]
                 /\ UNCHANGED <<peerVars, nodeVars>>
                 /\ marked' = [marked EXCEPT ![h] = base]
                 /\ dirs' = [dirs EXCEPT ![base] =
                                Directory(@.chunks \cup {i \in ChunkIds : i < num})]
                 /\ lastCache' = [Resolved(call, r) EXCEPT !.out = "Chunked",
                                                           !.ret = base, !.total = num]
                 /\ UNCHANGED cursorVars

\* The file system changes behind the store's back: a chunk file is
\* deleted, a chunk directory (or the file in its place) is removed, a
\* regular file appears where a chunk directory would be.
DeleteChunk(d, i) ==
    /\ dirs[d].kind = "dir" /\ i \in dirs[d].chunks
    /\ dirs' = [dirs EXCEPT ![d] = Directory(@.chunks \ {i})]
    /\ lastCache' = [NoCall EXCEPT !.op = "fs"]
    /\ UNCHANGED <<mem, disk, durable, persisted, peerVars, nodeVars, marked, cursorVars>>

RemovePath(d) ==
    /\ dirs[d].kind # "missing"
    /\ dirs' = [dirs EXCEPT ![d] = Missing]
    /\ lastCache' = [NoCall EXCEPT !.op = "fs"]
    /\ UNCHANGED <<mem, disk, durable, persisted, peerVars, nodeVars, marked, cursorVars>>

PutFile(d) ==
    /\ dirs[d].kind = "missing"
    /\ dirs' = [dirs EXCEPT ![d] = RegularFile]
    /\ lastCache' = [NoCall EXCEPT !.op = "fs"]
    /\ UNCHANGED <<mem, disk, durable, persisted, peerVars, nodeVars, marked, cursorVars>>

\* ------------------------------------------- the chunk loop of the chunker
\* The loop of VideoFPSChunker.execute (lines 188-199), for a probe that
\* reported total frames and the input frames_per_chunk = fpc (schema
\* minimum 1):
\*   start_frame = chunk_idx * frames_per_chunk
\*   num_frames_in_chunk = min(frames_per_chunk, total_frames - start_frame)
StartFrame(chunkIdx, fpc) == chunkIdx * fpc

NumFramesInChunkFull(startFrame, total, fpc) == fpc
NumFramesInChunk(startFrame, total, fpc) ==
    IF fpc <= total - startFrame THEN fpc ELSE total - startFrame

\* No execution has reached the loop.
NoPlan == [total |-> 0, fpc |-> 1, num |-> 0, chunks |-> <<>>]

\* The execution computes num_chunks and enters the loop.
PlanStart(total, fpc) ==
    /\ plan' = [total |-> total, fpc |-> fpc, num |-> NumChunks(total, fpc),
                chunks |-> <<>>]
    /\ UNCHANGED <<mem, disk, durable, persisted, peerVars, cursorVars, cacheVars,
                   concat, acc>>

\* One iteration of "for chunk_idx in range(num_chunks)": chunk_idx is the
\* number of chunks planned so far.
PlanChunk ==
    /\ Len(plan.chunks) < plan.num
    /\ LET start == StartFrame(Len(plan.chunks), plan.fpc)
       IN plan' = [plan EXCEPT !.chunks =
                      Append(@, [start |-> start,
                                 frames |-> NumFramesInChunk(start, plan.total,
                                                             plan.fpc)])]
    /\ UNCHANGED <<mem, disk, durable, persisted, peerVars, cursorVars, cacheVars,
                   concat, acc>>

\* ------------------------------------------ ConcatenateVideosFromDirectory
\* A file name is the sequence of its characters.
Ext == <<".", "m", "p", "4">>
DigitChars == <<"0", "1", "2", "3", "4", "5", "6", "7", "8", "9">>
IsDigit(c) == \E i \in DOMAIN DigitChars : DigitChars[i] = c
DigitValue(c) == (CHOOSE i \in DOMAIN DigitChars : DigitChars[i] = c) - 1

\* f"{counter:04d}": the decimal digits of a counter >= 0, padded with
\* zeros to four characters.
RECURSIVE Digits(_)
Digits(c) ==
    IF c < 10 THEN <<DigitChars[c + 1]>>
    ELSE Digits(c \div 10) \o <<DigitChars[(c % 10) + 1]>>

Format04d(c) ==
    LET d == Digits(c)
    IN [i \in 1..(IF Len(d) < 4 THEN 4 - Len(d) ELSE 0) |-> "0"] \o d

\* output_filename = f"{filename_prefix}_{counter:04d}.mp4"
OutputFilename(prefix, counter) == prefix \o <<"_">> \o Format04d(counter) \o Ext

\* int(counter_part) for a string of the characters used here: it parses
\* when the string is a non-empty run of digits, and raises ValueError
\* otherwise.
IntParses(part) == part # <<>> /\ \A i \in DOMAIN part : IsDigit(part[i])

RECURSIVE IntValue(_)
IntValue(part) ==
    IF part = <<>> THEN 0
    ELSE 10 * IntValue(SubSeq(part, 1, Len(part) - 1)) + DigitValue(part[Len(part)])

\* fnmatch, as glob.glob applies it to the names of a directory: "*"
\* matches any run of characters, "[...]" one character of the set between
\* the brackets, every other character itself.  ClassEnd is the position
\* of the "]" that closes a set opened by the first character, 0 when there
\* is none (the "[" is then literal).
ClassEnd(pat) ==
    LET js == {j \in 3..Len(pat) : pat[j] = "]"}
    IN IF js = {} THEN 0 ELSE CHOOSE j \in js : \A k \in js : j <= k

RECURSIVE GlobMatch(_, _)
GlobMatch(pat, name) ==
    IF pat = <<>> THEN name = <<>>
    ELSE IF Head(pat) = "*"
    THEN \/ GlobMatch(Tail(pat), name)
         \/ (name # <<>> /\ GlobMatch(pat, Tail(name)))
    ELSE IF Head(pat) = "[" /\ ClassEnd(pat) > 0
    THEN /\ name # <<>>
         /\ \E i \in 2..(ClassEnd(pat) - 1) : pat[i] = Head(name)
         /\ GlobMatch(SubSeq(pat, ClassEnd(pat) + 1, Len(pat)), Tail(name))
    ELSE /\ name # <<>>
         /\ Head(name) = Head(pat)
         /\ GlobMatch(Tail(pat), Tail(name))

\* counter_part = basename[len(prefix)+1:-4]
CounterPart(basename, prefix) ==
    SubSeq(basename, Len(prefix) + 2, Len(basename) - 4)

\* get_next_counter(output_dir, prefix) over the files of the output
\* directory (lines 67-89).
GetNextCounter(files, prefix) ==
    LET existing == {f \in files : GlobMatch(prefix \o <<"_", "*">> \o Ext, f)}
        counters == {IntValue(CounterPart(f, prefix)) :
                        f \in {g \in existing : IntParses(CounterPart(g, prefix))}}
    IN IF existing = {} THEN 1
       ELSE IF counters = {} THEN 1
       ELSE (CHOOSE c \in counters : \A d \in counters : d <= c) + 1

\* The output_prefix inputs (their part after the last "/"): a plain name
\* and a name with brackets.
ConcatPrefixes == {<<"a">>, <<"[", "a", "]">>}

\* Files that get into the output directory by other means than the node.
OtherParts == {<<"x">>, <<"2">>}
OtherFiles == {p \o <<"_">> \o part \o Ext : p \in ConcatPrefixes, part \in OtherParts}

\* No call of the node so far, the output directory empty.
NoConcat ==
    [files |-> {}, op |-> "none", out |-> "none", prefix |-> <<>>,
     counter |-> 0, output |-> <<>>, existed |-> FALSE]

\* ConcatenateVideosFromDirectory.execute (lines 91-176).
\*   videos   : the glob of the input directory found at least one file
\*   ffmpegOk : ffmpeg -y ... output_path exits with status 0
\*   left     : the run has created (or overwritten) output_path, as every
\*              successful run has and a failed one may have
\* existed records whether output_path was there before the call.
ConcatExecute(prefix, videos, ffmpegOk, left) ==
    IF ~videos
    THEN \* raise ValueError("No videos found ..."), before a name is chosen
         /\ ~ffmpegOk /\ ~left
         /\ concat' = [concat EXCEPT !.op = "concat", !.out = "NoVideos",
                                     !.prefix = prefix, !.counter = 0,
                                     !.output = <<>>, !.existed = FALSE]
         /\ UNCHANGED <<mem, disk, durable, persisted, peerVars, cursorVars,
                        cacheVars, plan, acc>>
    ELSE LET counter == GetNextCounter(concat.files, prefix)
             output == OutputFilename(prefix, counter)
         IN /\ counter <= MaxCounter
            /\ ffmpegOk => left
            /\ concat' = [files |-> IF left THEN concat.files \cup {output}
                                    ELSE concat.files,
                          op |-> "concat",
                          out |-> IF ffmpegOk THEN "Saved" ELSE "FfmpegFailed",
                          prefix |-> prefix, counter |-> counter,
                          output |-> output,
                          existed |-> output \in concat.files]
            /\ UNCHANGED <<mem, disk, durable, persisted, peerVars, cursorVars,
                           cacheVars, plan, acc>>

\* A file appears in the output directory.
ConcatPutFile(name) ==
    /\ name \notin concat.files
    /\ concat' = [NoConcat EXCEPT !.files = concat.files \cup {name}, !.op = "put"]
    /\ UNCHANGED <<mem, disk, durable, persisted, peerVars, cursorVars,
                   cacheVars, plan, acc>>

\* ------------------------------------------------ the accumulator nodes
\* An image batch: a tensor whose first dimension holds the frames; res
\* stands for its other dimensions (height, width, channels).  NoneBatch is
\* the input current_batch that is not connected (None).
NoneBatch == [kind |-> "None", res |-> "none", frames |-> <<>>]
Tensor(res, frames) == [kind |-> "tensor", res |-> res, frames |-> frames]
Resolutions == {"r1", "r2"}
FrameTags == {"x", "y"}

\* batch.shape[0]
Shape0(b) == Len(b.frames)

\* new_batch[:0]
Slice0Keep(b) == b
Slice0(b) == Tensor(b.res, <<>>)

\* torch.cat([current_batch, new_batch], dim=0); it raises RuntimeError
\* when the two differ in another dimension.
CatRaises(a, b) == a.res # b.res
Cat(a, b) == Tensor(a.res, a.frames \o b.frames)

\* total_frames // new_batch.shape[0] if new_batch.shape[0] > 0 else 0
ChunksAdded(total, newBatch) ==
    IF Shape0(newBatch) > 0 THEN total \div Shape0(newBatch) ELSE 0

NodeOutput(batch, total, chunks) ==
    [out |-> "ok", batch |-> batch, total |-> total, chunks |-> chunks]
CatError ==
    [out |-> "CatError", batch |-> NoneBatch, total |-> -1, chunks |-> -1]

\* ImageBatchAccumulator.execute (lines 32-54); it has no chunks_added
\* output (-1 here).
Accumulate(newBatch, shouldAdd, currentBatch) ==
    IF ~shouldAdd
    THEN IF currentBatch.kind # "None"
         THEN NodeOutput(currentBatch, Shape0(currentBatch), -1)
         ELSE NodeOutput(Slice0(newBatch), 0, -1)
    ELSE IF currentBatch.kind = "None"
    THEN NodeOutput(newBatch, Shape0(newBatch), -1)
    ELSE IF CatRaises(currentBatch, newBatch) THEN CatError
    ELSE LET accumulated == Cat(currentBatch, newBatch)
         IN NodeOutput(accumulated, Shape0(accumulated), -1)

\* ConditionalImageBatchAccumulator.execute (lines 83-113).
CondAccumulate(newBatch, currentIndex, skipIndex, currentBatch) ==
    IF currentIndex = skipIndex
    THEN IF currentBatch.kind # "None"
         THEN NodeOutput(currentBatch, Shape0(currentBatch),
                         ChunksAdded(Shape0(currentBatch), newBatch))
         ELSE NodeOutput(Slice0(newBatch), 0, 0)
    ELSE IF currentBatch.kind = "None"
    THEN NodeOutput(newBatch, Shape0(newBatch), 1)
    ELSE IF CatRaises(currentBatch, newBatch) THEN CatError
    ELSE LET accumulated == Cat(currentBatch, newBatch)
         IN NodeOutput(accumulated, Shape0(accumulated),
                       ChunksAdded(Shape0(accumulated), newBatch))

\* The last call of an accumulator node.  new and adding are its inputs
\* (adding: should_add, or current_index # skip_index), fed tells whether
\* current_batch was connected to the batch the call before had returned;
\* batch, total and chunks are its outputs.  added counts the new_batch
\* inputs joined into the batch since the accumulation started, and cond
\* tells that every call since then was of the conditional node.
NoAcc ==
    [op |-> "none", out |-> "none", new |-> NoneBatch, adding |-> FALSE,
     fed |-> FALSE, batch |-> NoneBatch, total |-> 0, chunks |-> 0,
     added |-> 0, cond |-> TRUE]

AccAfter(op, r, newBatch, adding, fed) ==
    IF r.out # "ok"
    THEN [NoAcc EXCEPT !.op = op, !.out = r.out, !.new = newBatch,
                       !.adding = adding, !.fed = fed]
    ELSE [op |-> op, out |-> "ok", new |-> newBatch, adding |-> adding,
          fed |-> fed, batch |-> r.batch, total |-> r.total, chunks |-> r.chunks,
          added |-> (IF fed THEN acc.added ELSE 0) + (IF adding THEN 1 ELSE 0),
          cond |-> op = "cond" /\ (fed => acc.cond)]

\* The current_batch of a call: the batch the call before returned, or None
\* when an accumulation starts.
CurrentBatch(fed) == IF fed THEN acc.batch ELSE NoneBatch

AccExecute(newBatch, shouldAdd, fed) ==
    /\ fed => (acc.batch.kind = "tensor" /\ acc.added < MaxAdds)
    /\ Shape0(CurrentBatch(fed)) + Shape0(newBatch) <= MaxAccFrames
    /\ acc' = AccAfter("acc", Accumulate(newBatch, shouldAdd, CurrentBatch(fed)),
                       newBatch, shouldAdd, fed)
    /\ UNCHANGED <<mem, disk, durable, persisted, peerVars, cursorVars, cacheVars,
                   plan, concat>>

CondExecute(newBatch, currentIndex, skipIndex, fed) ==
    /\ fed => (acc.batch.kind = "tensor" /\ acc.added < MaxAdds)
    /\ Shape0(CurrentBatch(fed)) + Shape0(newBatch) <= MaxAccFrames
    /\ acc' = AccAfter("cond",
                       CondAccumulate(newBatch, currentIndex, skipIndex,
                                      CurrentBatch(fed)),
                       newBatch, currentIndex # skipIndex, fed)
    /\ UNCHANGED <<mem, disk, durable, persisted, peerVars, cursorVars, cacheVars,
                   plan, concat>>

\* A process restart: the module-level IMAGE_DB = ImageDatabase(path) (or
\* VIDEO_DB, PROCESSED_DB) runs again and loads what the file holds.  A run
\* of k < n calls whose updates are all in the file is followed across the
\* restart ("armed").
Restart(s) ==
    /\ mem' = [mem EXCEPT ![s] = Load(disk[BackingFile(s)])]
    /\ durable' = [durable EXCEPT ![s] = TRUE]
    /\ wlen' = [k \in Keys |-> IF k[1] = s THEN dlen[k] ELSE wlen[k]]
    /\ run' = [k \in Keys |->
                 IF k[1] # s THEN run[k]
                 ELSE IF durable[s] /\ run[k].start # "none" /\ run[k].k < run[k].n
                 THEN [run[k] EXCEPT !.start = "armed"]
                 ELSE NoRun]
    /\ last' = IF s \in CursorStores
               THEN [NoLast EXCEPT !.op = "restart", !.store = s] ELSE last
    /\ marked' = IF s = "processed" THEN [h \in Hashes |-> NoDir] ELSE marked
    /\ lastCache' = IF s = "processed"
                    THEN [NoCall EXCEPT !.op = "restart"] ELSE lastCache
    /\ UNCHANGED <<disk, dlen, dirs, persisted, peerVars, nodeVars>>

Init ==
    /\ mem = [s \in Stores |-> EmptyData]
    /\ disk = [f \in Files |-> MissingFile]
    /\ durable = [s \in Stores |-> TRUE]
    /\ run = [k \in Keys |-> NoRun]
    /\ wlen = [k \in Keys |-> -1]
    /\ dlen = [k \in Keys |-> -1]
    /\ last = NoLast
    /\ dirs = [d \in Dirs |-> Missing]
    /\ marked = [h \in Hashes |-> NoDir]
    /\ lastCache = NoCall
    /\ persisted = [s \in Stores |-> EmptyData]
    /\ peer = [s \in Stores |-> EmptyData]
    /\ race = NoRace
    /\ plan = NoPlan
    /\ concat = NoConcat
    /\ acc = NoAcc

ImageExecute ==
    \E label \in {"L1"}, path \in Paths, pattern \in Patterns,
       pathExists \in BOOLEAN, n \in 0..MaxLen,
       okSaves \in 0..SavesPerCall, failure \in {"failEarly", "failPartial"} :
        Execute("image", label, path, pattern, pathExists, n, okSaves, failure)

ImageRestart == Restart("image")

NextCursor == ImageExecute \/ ImageRestart

SpecCursor == Init /\ [][NextCursor]_vars

\* The cache nodes on one video, the file system and restarts.
Check ==
    \E isPath \in BOOLEAN, h \in {"h1"},
       okSaves \in 0..1, failure \in {"failEarly", "failPartial"} :
        CheckExecute(isPath, h, okSaves, failure)

Chunker ==
    \E ffmpeg \in BOOLEAN, h \in {"h1"}, o \in OutDirs, fpc \in 1..MaxFpc,
       probed \in BOOLEAN, totalFrames \in 0..MaxFrames, extracted \in 0..MaxFrames,
       okSaves \in 0..2, failure \in {"failEarly", "failPartial"} :
        ChunkerExecute(ffmpeg, h, o, fpc, probed, totalFrames, extracted, okSaves, failure)

FileSystem ==
    \E d \in RealDirs \X {"h1"} :
        \/ \E i \in ChunkIds : DeleteChunk(d, i)
        \/ RemovePath(d)
        \/ PutFile(d)

CacheRestart == Restart("processed")

NextCache == Check \/ Chunker \/ FileSystem \/ CacheRestart

SpecCache == Init /\ [][NextCache]_vars

\* The three stores side by side: both batch loaders on one label, path and
\* pattern and a directory of two items, the cache nodes on one video, and
\* the removal of the chunk directory.
StoresImage ==
    \E n \in {2}, okSaves \in {1, SavesPerCall} :
        Execute("image", "L1", "pA", "g1", TRUE, n, okSaves, "failEarly")

StoresVideo ==
    \E n \in {2}, okSaves \in {1, SavesPerCall} :
        Execute("video", "L1", "pA", "g1", TRUE, n, okSaves, "failEarly")

StoresCheck ==
    \E okSaves \in 0..1 : CheckExecute(TRUE, "h1", okSaves, "failEarly")

StoresChunker ==
    \E probed \in BOOLEAN, totalFrames \in 0..1, extracted \in 0..1, okSaves \in 0..2 :
        ChunkerExecute(TRUE, "h1", "a", 1, probed, totalFrames, extracted,
                       okSaves, "failEarly")

StoresRemovePath == RemovePath(<<"a", "h1">>)

NextStores ==
    \/ StoresImage
    \/ StoresVideo
    \/ StoresCheck
    \/ StoresChunker
    \/ StoresRemovePath

SpecStores == Init /\ [][NextStores]_vars

\* Two processes, each with its own ImageDatabase instance over the same
\* image_batch_state.json: mem["image"] is the instance of process "p1",
\* peer["image"] the instance of process "p2".
Processes == {"p1", "p2"}
InstanceData(p, s) == IF p = "p1" THEN mem[s] ELSE peer[s]

\* The categories of the document a file holds (none when it does not parse).
FileCategories(file) == DOMAIN Load(file).doc

\* Process p starts (or restarts): its instance loads the file.
ProcessOpen(p, s) ==
    /\ mem' = IF p = "p1" THEN [mem EXCEPT ![s] = Load(disk[BackingFile(s)])] ELSE mem
    /\ peer' = IF p = "p2" THEN [peer EXCEPT ![s] = Load(disk[BackingFile(s)])] ELSE peer
    /\ durable' = IF p = "p1" THEN [durable EXCEPT ![s] = TRUE] ELSE durable
    /\ race' = NoRace
    /\ UNCHANGED <<disk, persisted, cursorVars, cacheVars, nodeVars>>

\* Process p calls insert(category, 'counter', value) on its instance:
\* self.data is updated and the whole of it is written over the file.
\* race records who wrote, whether the save succeeded, and the categories
\* the file held before the call and does not hold after it.
ProcessInsert(p, s, category, value, okSaves, failure) ==
    \E db \in {DbInsert(OpenDb(InstanceData(p, s), disk[BackingFile(s)],
                               okSaves, failure),
                        category, "counter", value)} :
        /\ okSaves = 1 => failure = "failEarly"
        /\ mem' = IF p = "p1" THEN [mem EXCEPT ![s] = db.data] ELSE mem
        /\ peer' = IF p = "p2" THEN [peer EXCEPT ![s] = db.data] ELSE peer
        /\ disk' = [disk EXCEPT ![BackingFile(s)] = db.file]
        /\ durable' = IF p = "p1" THEN [durable EXCEPT ![s] = Durable(db.log, @)]
                      ELSE durable
        /\ persisted' = [persisted EXCEPT ![s] = PersistedAfter(db.log, @)]
        /\ race' = [by |-> p,
                    ok |-> Durable(db.log, FALSE),
                    lost |-> FileCategories(disk[BackingFile(s)])
                                \ FileCategories(db.file)]
        /\ UNCHANGED <<cursorVars, cacheVars, nodeVars>>

TwoOpen == \E p \in Processes : ProcessOpen(p, "image")

TwoInsert ==
    \E p \in Processes, category \in Labels,
       okSaves \in 0..1, failure \in {"failEarly", "failPartial"} :
        ProcessInsert(p, "image", category, 0, okSaves, failure)

NextTwo == TwoOpen \/ TwoInsert

SpecTwo == Init /\ [][NextTwo]_vars

\* A store opened over a file of any content, then read and written.
OpenDocs ==
    UNION {[S -> {("counter" :> c) : c \in 0..1}] : S \in SUBSET Labels}
OpenFiles ==
    {MissingFile, UnreadableFile, MalformedFile,
     JsonFile(JNull), JsonFile(JArray), JsonFile(JNumber)}
        \cup {JsonFile(JObject(d)) : d \in OpenDocs}

OpenCacheFiles == {MissingFile, JsonFile(JNull), JsonFile(JArray)}

InitOpen ==
    /\ \E f \in OpenFiles, c \in OpenCacheFiles :
          disk = [g \in Files |-> IF g = BackingFile("image") THEN f
                                  ELSE IF g = BackingFile("processed") THEN c
                                  ELSE MissingFile]
    /\ mem = [s \in Stores |-> Load(disk[BackingFile(s)])]
    /\ durable = [s \in Stores |-> TRUE]
    /\ run = [k \in Keys |-> NoRun]
    /\ wlen = [k \in Keys |-> -1]
    /\ dlen = [k \in Keys |-> -1]
    /\ last = NoLast
    /\ dirs = [d \in Dirs |-> Missing]
    /\ marked = [h \in Hashes |-> NoDir]
    /\ lastCache = NoCall
    /\ persisted = [s \in Stores |-> Load(disk[BackingFile(s)])]
    /\ peer = [s \in Stores |-> Load(disk[BackingFile(s)])]
    /\ race = NoRace
    /\ plan = NoPlan
    /\ concat = NoConcat
    /\ acc = NoAcc

\* IMAGE_DB.get(category, 'counter', default)
StoreGet(s, category) ==
    /\ last' = IF GetRaises(mem[s])
               THEN [NoLast EXCEPT !.op = "get", !.store = s, !.label = category,
                                   !.out = "TypeError"]
               ELSE [NoLast EXCEPT !.op = "get", !.store = s, !.label = category,
                                   !.out = "value",
                                   !.idx = Get(mem[s], category, "counter", -1)]
    /\ UNCHANGED <<mem, disk, durable, persisted, peerVars, nodeVars, run, wlen, dlen, cacheVars>>

\* IMAGE_DB.insert(category, 'counter', value)
StoreInsert(s, category, value, okSaves, failure) ==
    IF InsertRaises(mem[s])
    THEN /\ okSaves = 0 /\ failure = "failEarly"
         /\ last' = [NoLast EXCEPT !.op = "insert", !.store = s, !.label = category,
                                   !.out = "TypeError"]
         /\ UNCHANGED <<mem, disk, durable, persisted, peerVars, nodeVars, run, wlen, dlen, cacheVars>>
    ELSE \E db \in {DbInsert(OpenDb(mem[s], disk[BackingFile(s)], okSaves, failure),
                              category, "counter", value)} :
         /\ okSaves = 1 => failure = "failEarly"
         /\ mem' = [mem EXCEPT ![s] = db.data]
         /\ disk' = [disk EXCEPT ![BackingFile(s)] = db.file]
         /\ durable' = [durable EXCEPT ![s] = Durable(db.log, @)]
         /\ persisted' = [persisted EXCEPT ![s] = PersistedAfter(db.log, @)]
         /\ UNCHANGED <<peerVars, nodeVars>>
         /\ last' = [NoLast EXCEPT !.op = "insert", !.store = s, !.label = category,
                                   !.out = "stored", !.idx = value]
         /\ UNCHANGED <<run, wlen, dlen, cacheVars>>

\* IMAGE_DB.category_exists(category) and IMAGE_DB.key_exists(category,
\* 'counter'): "category in self.data" raises TypeError when self.data is
\* None or a number.  The answer is recorded in idx as 1 or 0.
StoreCategoryExists(s, category) ==
    /\ last' = IF GetRaises(mem[s])
               THEN [NoLast EXCEPT !.op = "category_exists", !.store = s,
                                   !.label = category, !.out = "TypeError"]
               ELSE [NoLast EXCEPT !.op = "category_exists", !.store = s,
                                   !.label = category, !.out = "value",
                                   !.idx = IF category \in DOMAIN mem[s].doc
                                           THEN 1 ELSE 0]
    /\ UNCHANGED <<mem, disk, durable, persisted, peerVars, nodeVars, run, wlen, dlen, cacheVars>>

StoreKeyExists(s, category) ==
    /\ last' = IF GetRaises(mem[s])
               THEN [NoLast EXCEPT !.op = "key_exists", !.store = s,
                                   !.label = category, !.out = "TypeError"]
               ELSE [NoLast EXCEPT !.op = "key_exists", !.store = s,
                                   !.label = category, !.out = "value",
                                   !.idx = IF /\ category \in DOMAIN mem[s].doc
                                              /\ "counter" \in DOMAIN mem[s].doc[category]
                                           THEN 1 ELSE 0]
    /\ UNCHANGED <<mem, disk, durable, persisted, peerVars, nodeVars, run, wlen, dlen, cacheVars>>

\* PROCESSED_DB.is_processed(h): "video_hash in self.data" raises TypeError
\* when self.data is None or a number.  PROCESSED_DB.get_chunk_dir(h):
\* self.data.get raises AttributeError when self.data is not a dict.
CacheIsProcessed(h) ==
    /\ lastCache' = IF GetRaises(mem["processed"])
                    THEN [NoCall EXCEPT !.op = "is_processed", !.hash = h,
                                        !.out = "TypeError"]
                    ELSE [NoCall EXCEPT !.op = "is_processed", !.hash = h,
                                        !.out = "value",
                                        !.known = IsProcessed(mem["processed"], h)]
    /\ UNCHANGED <<mem, disk, durable, persisted, peerVars, nodeVars, dirs, marked, cursorVars>>

CacheGetChunkDir(h) ==
    /\ lastCache' = IF InsertRaises(mem["processed"])
                    THEN [NoCall EXCEPT !.op = "get_chunk_dir", !.hash = h,
                                        !.out = "AttributeError"]
                    ELSE [NoCall EXCEPT !.op = "get_chunk_dir", !.hash = h,
                                        !.out = "value",
                                        !.rec = GetChunkDir(mem["processed"], h)]
    /\ UNCHANGED <<mem, disk, durable, persisted, peerVars, nodeVars, dirs, marked, cursorVars>>

ImageGet == \E category \in Labels : StoreGet("image", category)

ImageInsert ==
    \E category \in Labels, value \in 0..1,
       okSaves \in 0..1, failure \in {"failEarly", "failPartial"} :
        StoreInsert("image", category, value, okSaves, failure)

ImageCategoryExists == \E category \in Labels : StoreCategoryExists("image", category)

ImageKeyExists == \E category \in Labels : StoreKeyExists("image", category)

CacheProbe == CacheIsProcessed("h1") \/ CacheGetChunkDir("h1")

NextOpen ==
    \/ ImageGet
    \/ ImageInsert
    \/ ImageRestart
    \/ ImageCategoryExists
    \/ ImageKeyExists
    \/ CacheProbe

SpecOpen == InitOpen /\ [][NextOpen]_vars

\* LoadImageBatch on two labels of one store, over a directory of two items.
LabelsExecute ==
    \E label \in Labels,
       okSaves \in 0..SavesPerCall, failure \in {"failEarly", "failPartial"} :
        Execute("image", label, "pA", "g1", TRUE, 2, okSaves, failure)

NextLabels == LabelsExecute

SpecLabels == Init /\ [][NextLabels]_vars

\* LoadImageBatch on one label and path, with either pattern, over
\* directories of one to MaxLen items; a save that fails leaves the file as
\* it was.
IndexExecute ==
    \E pattern \in Patterns, n \in 1..MaxLen, okSaves \in 0..SavesPerCall :
        Execute("image", "L1", "pA", pattern, TRUE, n, okSaves, "failEarly")

NextIndex == IndexExecute

SpecIndex == Init /\ [][NextIndex]_vars

\* Two callers share label L1: caller A asks for path pA with pattern g1,
\* caller B for path pB with pattern g2, each over a directory of zero to
\* MaxLen items.
CallerA ==
    \E n \in 0..MaxLen, okSaves \in 0..SavesPerCall,
       failure \in {"failEarly", "failPartial"} :
        Execute("image", "L1", "pA", "g1", TRUE, n, okSaves, failure)

CallerB ==
    \E n \in 0..MaxLen, okSaves \in 0..SavesPerCall,
       failure \in {"failEarly", "failPartial"} :
        Execute("image", "L1", "pB", "g2", TRUE, n, okSaves, failure)

NextShared == CallerA \/ CallerB

SpecShared == Init /\ [][NextShared]_vars

\* The chunk loop of the chunker for every frame count up to MaxPlanFrames
\* and every frames_per_chunk up to MaxPlanFpc.
PlanExecute ==
    \E total \in 0..MaxPlanFrames, fpc \in 1..MaxPlanFpc : PlanStart(total, fpc)

NextPlan == PlanExecute \/ PlanChunk

SpecPlan == Init /\ [][NextPlan]_vars

\* The concatenation node with either prefix on one output directory, and
\* files that appear in the directory by other means.
Concat ==
    \E prefix \in ConcatPrefixes, videos \in BOOLEAN, ffmpegOk \in BOOLEAN,
       left \in BOOLEAN :
        ConcatExecute(prefix, videos, ffmpegOk, left)

ConcatPut == \E name \in OtherFiles : ConcatPutFile(name)

NextConcat == Concat \/ ConcatPut

SpecConcat == Init /\ [][NextConcat]_vars

\* The two accumulator nodes, each call fed with the batch the call before
\* returned or starting a new accumulation.
NewBatches ==
    {Tensor(res, frames) :
        res \in Resolutions,
        frames \in UNION {[1..k -> FrameTags] : k \in 0..MaxBatch}}

AccCall ==
    \E newBatch \in NewBatches, shouldAdd \in BOOLEAN, fed \in BOOLEAN :
        AccExecute(newBatch, shouldAdd, fed)

CondCall ==
    \E newBatch \in NewBatches, currentIndex \in 0..1, skipIndex \in 0..1,
       fed \in BOOLEAN :
        CondExecute(newBatch, currentIndex, skipIndex, fed)

NextAccum == AccCall \/ CondCall

SpecAccum == Init /\ [][NextAccum]_vars

\* ------------------------------------------------------ cursor properties
ImageL1 == <<"image", "L1">>

\* The counter stored for a label (-1 when there is none).
Pos(data, label) == Get(data, "Batch Counters", label, -1)

\* C1. Cyclic coverage: in a run of calls that started on a label with no
\* stored state and keeps one path, pattern and length n >= 1, the k-th call
\* returns index (k - 1) mod n: 0, 1, ..., n-1, then 0 again, with no gap.
C1_CyclicCoverage ==
    \A key \in Keys :
        run[key].start = "fresh" => run[key].idx = (run[key].k - 1) % run[key].n

\* The (N+1)-th call of such a run over N = MaxLen items has returned 0.
C1_Witness ==
    /\ run[ImageL1].start = "fresh" /\ run[ImageL1].n = MaxLen
    /\ run[ImageL1].k = MaxLen + 1 /\ run[ImageL1].idx = 0

\* C2. Identity-change reset: a call whose path or pattern differs from the
\* ones stored for the label returns index 0, whatever position was stored,
\* and the calls that follow with the new identity return 1, 2, ... (mod n);
\* this holds for every change, a change back to an earlier identity included.
C2_IdentityChangeReset ==
    \A key \in Keys :
        run[key].start = "reset" => run[key].idx = (run[key].k - 1) % run[key].n

\* A label that stood at position 2 was called with another identity and
\* then once more: the second call returned 1 and the position is 2 again.
C2_Witness ==
    /\ run[ImageL1].start = "reset" /\ run[ImageL1].k = 2 /\ run[ImageL1].idx = 1
    /\ run[ImageL1].n = MaxLen /\ Pos(mem["image"], "L1") = 2

\* C3. Atomic reset, as the claim states it: the file never holds only some
\* of a label's three fields (counter, path, pattern).
C3_AtomicReset ==
    \A s \in CursorStores, l \in Labels :
        disk[BackingFile(s)].st = "json" =>
            LET t == Triple(disk[BackingFile(s)].val, l)
            IN \/ t = NoTriple
               \/ t.counter # -1 /\ t.path # NoneVal /\ t.pattern # NoneVal

\* C4. Persistence across restarts: after k < n calls of a run whose updates
\* all reached the file, a new store instance loaded from the file makes the
\* next call of the run return index k.
C4_ResumeAfterRestart ==
    \A key \in Keys :
        run[key].start = "resumed" => run[key].idx = (run[key].k - 1) % run[key].n

\* Two calls, a restart, and the third call returned index 2.
C4_Witness ==
    /\ run[ImageL1].start = "resumed" /\ run[ImageL1].k = 3
    /\ run[ImageL1].idx = 2 /\ run[ImageL1].n = MaxLen

\* C5. Crash consistency, as the claim states it: the file, once written,
\* always holds a complete document, never an empty or cut-off one.
C5_CrashConsistent ==
    \A s \in Stores : disk[BackingFile(s)].st # "malformed"

\* C9, as the claim states it: the position of a label is within the length
\* of the label's sequence, taken as the length the latest call on the label
\* found.
C9_PositionBound ==
    (last.op = "execute" /\ last.out # "PathMissing") =>
        /\ 0 <= Pos(mem[last.store], last.label)
        /\ Pos(mem[last.store], last.label) <= last.n

\* C9, amended: a stored position, in memory and in the file, is within
\* 0..L for the sequence length L seen by the call that wrote it.
InWrittenLength(p, len) == IF p = -1 THEN len = -1 ELSE 0 <= p /\ p <= len
C9_PositionWithinWrittenLength ==
    \A key \in Keys :
        /\ InWrittenLength(Pos(mem[key[1]], key[2]), wlen[key])
        /\ disk[BackingFile(key[1])].st = "json" =>
               InWrittenLength(Pos(disk[BackingFile(key[1])].val, key[2]), dlen[key])

\* Position 2 was written for a sequence of 3 items, in memory and in the
\* file, and the latest call found the sequence empty.
C9_Witness ==
    /\ Pos(mem["image"], "L1") = 2 /\ wlen[ImageL1] = 3
    /\ disk[BackingFile("image")].st = "json" /\ Pos(disk[BackingFile("image")].val, "L1") = 2
    /\ last.op = "execute" /\ last.out = "EmptySequence"

\* A cache call that reached the resolve step.
Resolving ==
    /\ lastCache.op \in {"check", "chunker"}
    /\ lastCache.out \notin {"NotHashed", "NoFfmpeg"}

\* A resolve step that found the recorded path missing, not a directory or
\* without an .mp4 file.
StaleFound == Resolving /\ lastCache.known /\ lastCache.live < 1

\* C6 (as stated): a resolve that finds the recorded path missing, not a
\* directory or without .mp4 files answers NotProcessed, removes the entry
\* from the in-memory store, and the on-disk JSON no longer contains the
\* fingerprint key.
C6_StaleRemovedOnDisk ==
    StaleFound =>
        /\ ~lastCache.hit
        /\ lastCache.gone
        /\ ~lastCache.fileHas

\* C6 (amended): a resolve that finds the recorded path missing, not a
\* directory or without .mp4 files answers NotProcessed without an error and
\* removes the entry from the in-memory store, so that is_processed is false
\* afterwards; the on-disk JSON no longer contains the fingerprint key when
\* the save of that removal succeeded.
C6_SelfHealing ==
    StaleFound =>
        /\ ~lastCache.hit
        /\ lastCache.op = "check" => lastCache.out = "NotProcessed"
        /\ lastCache.gone
        /\ ~IsProcessed(mem["processed"], lastCache.hash) \/ lastCache.out = "Chunked"
        /\ lastCache.saveOk => ~lastCache.fileHas

\* A stale resolve whose removal was saved: the directory was recorded, is
\* gone, and neither the store nor its file holds the entry any more.
C6_Witness ==
    /\ StaleFound /\ lastCache.op = "check"
    /\ lastCache.rec \in Dirs /\ lastCache.live = -1
    /\ lastCache.saveOk /\ lastCache.gone
    /\ disk[BackingFile("processed")].st = "json"
    /\ lastCache.hash \notin DOMAIN disk[BackingFile("processed")].val.doc

\* C7: resolve answers Processed(path, count) exactly when the fingerprint
\* is known and the recorded path is a directory with at least one .mp4
\* file, and NotProcessed in every other case; the path is the recorded one
\* and count is the number of .mp4 files the directory holds at that time.
C7_ResolveDecision ==
    Resolving =>
        /\ lastCache.hit <=> (lastCache.known /\ lastCache.live >= 1)
        /\ lastCache.hit =>
              /\ lastCache.dir = lastCache.rec
              /\ lastCache.count = lastCache.live
              /\ lastCache.out = "Processed"
              /\ lastCache.ret = lastCache.rec
        /\ (~lastCache.hit /\ lastCache.op = "check") =>
              /\ lastCache.out = "NotProcessed"
              /\ lastCache.ret = NoDir

\* Processed with one chunk left of the two that were extracted: the first
\* chunk file was deleted, the second is still there.
C7_Witness ==
    /\ Resolving /\ lastCache.hit /\ lastCache.count = 1
    /\ lastCache.rec \in Dirs
    /\ AtPath(dirs, lastCache.rec).chunks = {1}

\* C8: after mark_processed(f, p), with no mark_processed and no stale
\* resolve for f since, resolve(f) answers Processed(p, count) whenever p is
\* a directory holding at least one .mp4 file.
C8_CacheRoundTrip ==
    (Resolving /\ lastCache.mk # NoDir /\ lastCache.mklive >= 1) =>
        /\ lastCache.hit
        /\ lastCache.dir = lastCache.mk
        /\ lastCache.count = lastCache.mklive

\* CheckVideoProcessed answers Processed for the directory the chunker
\* marked, although the save of that mark failed.
C8_Witness ==
    /\ Resolving /\ lastCache.op = "check" /\ lastCache.hit
    /\ lastCache.mk \in Dirs /\ lastCache.dir = lastCache.mk
    /\ ~FileHas(disk[BackingFile("processed")], lastCache.hash)

\* C10 (as stated): a store opened over a file that is missing, unreadable,
\* malformed or not a JSON object starts empty, a file holding a JSON object
\* becomes the initial state, and no later get or insert raises.
C10_OpenNeverFails ==
    /\ last.op \in {"none", "restart"} =>
          mem["image"] = IF /\ disk[BackingFile("image")].st = "json"
                            /\ disk[BackingFile("image")].val.kind = "object"
                         THEN disk[BackingFile("image")].val
                         ELSE EmptyData
    /\ last.out # "TypeError"

\* C11 (as stated): a failed save reaches no caller and the in-memory store
\* holds the update, so the stored position after a call that returned index
\* i of n items is (i + 1) mod n whatever the saves did; and a restart
\* resumes from the state of the latest save that succeeded.
C11_SaveFailureAbsorbed ==
    /\ (last.op = "execute" /\ last.out = "index") =>
          Pos(mem[last.store], last.label) = (last.idx + 1) % last.n
    /\ last.op = "restart" => mem[last.store] = persisted[last.store]

C13_EmptySequenceSurfaced ==
    last.op = "execute" =>
        /\ last.n = 0 =>
              /\ last.out \in {"EmptySequence", "PathMissing"}
              /\ last.idx = -1
        /\ last.out = "index" =>
              /\ last.n >= 1
              /\ 0 <= last.idx /\ last.idx < last.n

\* A label that was being tracked (position 2 of 3 items) is called on a
\* directory where nothing matches: the call raises.
C13_Witness ==
    /\ last.op = "execute" /\ last.out = "EmptySequence" /\ last.n = 0
    /\ last.idx = -1
    /\ Pos(mem[last.store], last.label) = 2

\* C14: with two store instances over one file, right after a save of
\* either succeeded the file holds exactly the in-memory state of that
\* writer: whatever the other instance had written and the writer never
\* loaded is no longer in the file.
C14_LastWriterWins ==
    (race.by \in Processes /\ race.ok) =>
        /\ disk[BackingFile("image")] = JsonFile(InstanceData(race.by, "image"))
        /\ \A c \in Labels :
              c \notin DOMAIN InstanceData(race.by, "image").doc =>
                  c \notin FileCategories(disk[BackingFile("image")])

\* Process p2 had saved L2 after p1 loaded; p1 then saved L1: the file lost
\* L2, which only p2's memory still holds.
C14_Witness ==
    /\ race.by = "p1" /\ race.ok /\ race.lost = {"L2"}
    /\ "L2" \in DOMAIN peer["image"].doc
    /\ "L2" \notin DOMAIN mem["image"].doc
    /\ FileCategories(disk[BackingFile("image")]) = {"L1"}

\* The read-only probes of the stores.
ProbeOps == {"get", "category_exists", "key_exists"}
CacheProbeOps == {"is_processed", "get_chunk_dir"}

\* C15 (as stated): get, category_exists, key_exists, is_processed and
\* get_chunk_dir never raise and leave the in-memory state and the file as
\* they were; get answers the default for an unknown category.
C15_ReadOnlyProbes ==
    [][/\ last'.op \in ProbeOps =>
            /\ last'.out = "value"
            /\ (last'.op = "get" /\ last'.label \notin DOMAIN mem[last'.store].doc)
                   => last'.idx = -1
       /\ lastCache'.op \in CacheProbeOps => lastCache'.out = "value"
       /\ (last'.op \in ProbeOps \/ lastCache'.op \in CacheProbeOps) =>
            /\ mem' = mem
            /\ disk' = disk]_vars

\* The ways VideoFPSChunker.execute fails after its cache check.
ChunkerFailures == {"MakedirsFailed", "ProbeFailed", "ExtractFailed", "NoChunks"}

\* C16: an entry appears in the store only by a VideoFPSChunker.execute
\* that extracted every chunk and found at least one .mp4 file in the chunk
\* directory (or by loading the file at a restart); after an execution that
\* failed past the cache check the store has no entry for the hash; after a
\* successful one it has an entry whose directory holds at least one chunk.
C16_MarkOnlyAfterSuccess ==
    [][/\ \A h \in Hashes :
            (~IsProcessed(mem["processed"], h) /\ IsProcessed(mem'["processed"], h)) =>
                \/ lastCache'.op = "restart"
                \/ /\ lastCache'.op = "chunker" /\ lastCache'.out = "Chunked"
                   /\ lastCache'.hash = h
                   /\ {i \in ChunkIds : i < lastCache'.total}
                          \subseteq AtPath(dirs', lastCache'.ret).chunks
       /\ (lastCache'.op = "chunker" /\ lastCache'.out \in ChunkerFailures) =>
            ~IsProcessed(mem'["processed"], lastCache'.hash)
       /\ (lastCache'.op = "chunker" /\ lastCache'.out \in {"Processed", "Chunked"}) =>
            /\ IsProcessed(mem'["processed"], lastCache'.hash)
            /\ GetChunkDir(mem'["processed"], lastCache'.hash) = lastCache'.ret
            /\ LiveCount(AtPath(dirs', lastCache'.ret)) >= 1]_vars

\* The hash had a stale entry; the execution removed it, extracted the first
\* of two chunks and failed on the second: no entry, one chunk file.
C16_Witness ==
    /\ lastCache.op = "chunker" /\ lastCache.out = "ExtractFailed"
    /\ lastCache.known
    /\ ~IsProcessed(mem["processed"], lastCache.hash)
    /\ \E d \in Dirs : dirs[d] = Directory({0})

\* A step changed store s: its in-memory state or its backing file.
StoreChanged(s) ==
    \/ mem'[s] # mem[s]
    \/ disk'[BackingFile(s)] # disk[BackingFile(s)]

\* C17: a step changes at most one store; a batch-loader call changes
\* nothing of the cache and a cache call nothing of the cursor stores; and a
\* change of the image (video) cursor store comes from a LoadImageBatch
\* (LoadVideoBatch) call, so the two keep separate positions for one label.
C17_StoresIndependent ==
    [][/\ \A s \in Stores : StoreChanged(s) =>
              \A t \in Stores \ {s} : ~StoreChanged(t)
       /\ \A s \in CursorStores : StoreChanged(s) =>
              /\ last'.op = "execute" /\ last'.store = s
              /\ cacheVars' = cacheVars
       /\ cursorVars' # cursorVars =>
              /\ ~StoreChanged("processed")
              /\ cacheVars' = cacheVars
       /\ (StoreChanged("processed") \/ cacheVars' # cacheVars) =>
              /\ cursorVars' = cursorVars
              /\ \A s \in CursorStores : ~StoreChanged(s)]_vars

\* Label L1 on the same path and pattern stands at position 1 in the image
\* store and at position 0 in the video store, in memory and in the two
\* files, while the cache holds an entry.
C17_Witness ==
    /\ Pos(mem["image"], "L1") = 1 /\ Pos(mem["video"], "L1") = 0
    /\ Triple(mem["image"], "L1").path = Triple(mem["video"], "L1").path
    /\ disk[BackingFile("image")] = JsonFile(mem["image"])
    /\ disk[BackingFile("video")] = JsonFile(mem["video"])
    /\ IsProcessed(mem["processed"], "h1")

\* C18: a call that returns an index for a label whose stored path and
\* pattern are the call's returns the stored position p when p < n and 0
\* when p >= n (0 also when no counter is stored); it stores (i + 1) mod n,
\* a position in 0..n-1, in memory, and in the file when its save succeeds.
C18_StepFunction ==
    [][(/\ last'.op = "execute" /\ last'.out = "index"
        /\ Triple(mem[last'.store], last'.label).path # NoneVal
        /\ Triple(mem[last'.store], last'.label).path
              = Triple(mem'[last'.store], last'.label).path
        /\ Triple(mem[last'.store], last'.label).pattern
              = Triple(mem'[last'.store], last'.label).pattern) =>
          LET s == last'.store
              l == last'.label
              n == last'.n
              p == Pos(mem[s], l)
              i == IF p >= n \/ p = -1 THEN 0 ELSE p
          IN /\ n >= 1
             /\ last'.idx = i
             /\ Pos(mem'[s], l) = (i + 1) % n
             /\ 0 <= Pos(mem'[s], l) /\ Pos(mem'[s], l) < n
             /\ durable'[s] =>
                   Pos(Load(disk'[BackingFile(s)]), l) = (i + 1) % n]_vars

\* The fourth call of a run over three items: the stored position was 0
\* again, the call returned 0 and stored 1, and the file holds 1.
C18_Witness ==
    /\ last.op = "execute" /\ last.out = "index" /\ last.n = 3 /\ last.idx = 0
    /\ run[ImageL1].k = 4 /\ run[ImageL1].n = 3
    /\ Pos(mem["image"], "L1") = 1
    /\ durable["image"]
    /\ Pos(Load(disk[BackingFile("image")]), "L1") = 1

\* C19: after a call that returned an index, the path and pattern stored
\* for the label are the call's, in memory, and in the file when the saves
\* succeeded; the first call for a label returns index 0 and leaves the
\* position advanced from 0.
C19_IdentityRecorded ==
    \A key \in Keys :
        run[key].start # "none" =>
            /\ Triple(mem[key[1]], key[2]).path = run[key].path
            /\ Triple(mem[key[1]], key[2]).pattern = run[key].pattern
            /\ durable[key[1]] =>
                  /\ Triple(Load(disk[BackingFile(key[1])]), key[2]).path = run[key].path
                  /\ Triple(Load(disk[BackingFile(key[1])]), key[2]).pattern
                        = run[key].pattern
            /\ (run[key].start = "fresh" /\ run[key].k = 1) =>
                  /\ run[key].idx = 0
                  /\ Pos(mem[key[1]], key[2]) = 1 % run[key].n

\* The first call for L1, on three items: it returned 0, and memory and file
\* hold the call's path and pattern and position 1.
C19_Witness ==
    /\ run[ImageL1].start = "fresh" /\ run[ImageL1].k = 1 /\ run[ImageL1].n = 3
    /\ last.op = "execute" /\ last.out = "index" /\ last.idx = 0
    /\ Triple(mem["image"], "L1") =
           [counter |-> 1, path |-> run[ImageL1].path, pattern |-> run[ImageL1].pattern]
    /\ disk[BackingFile("image")] = JsonFile(mem["image"])

\* C20 (as stated): an execute that raises, because the path does not exist
\* or the sequence is empty, leaves the label's counter, path and pattern as
\* they were, in memory and in the file.
C20_FailedCallKeepsState ==
    [][(last'.op = "execute" /\ last'.out \in {"PathMissing", "EmptySequence"}) =>
          /\ Triple(mem'[last'.store], last'.label)
                = Triple(mem[last'.store], last'.label)
          /\ Triple(Load(disk'[BackingFile(last'.store)]), last'.label)
                = Triple(Load(disk[BackingFile(last'.store)]), last'.label)]_vars

\* The labels other than the one a call was made on.
OtherLabels(l) == Labels \ {l}

\* C21 (as stated): a call on label L leaves the counter, path and pattern
\* of every other label as they were, in memory and in the file.
C21_LabelIndependence ==
    [][last'.op = "execute" =>
          \A m \in OtherLabels(last'.label) :
              /\ Triple(mem'[last'.store], m) = Triple(mem[last'.store], m)
              /\ Triple(Load(disk'[BackingFile(last'.store)]), m)
                    = Triple(Load(disk[BackingFile(last'.store)]), m)]_vars

\* ------------------------------------------------ the two resolve steps
\* The calls of the two cache nodes that got as far as their cache check.
ReachedResolve(call) ==
    call.op \in {"check", "chunker"} /\ call.out \notin {"NotHashed", "NoFfmpeg"}

\* C22 (as stated): on the same video, store and file system,
\* CheckVideoProcessed answers Processed with a directory exactly when
\* VideoFPSChunker takes its cache-hit path and returns that directory.  A
\* call that answers Processed changes nothing, so the call of the other
\* node that follows it finds the same store and file system.
C22_ResolveAgree ==
    [][(/\ lastCache.op \in {"check", "chunker"} /\ lastCache.out = "Processed"
        /\ lastCache'.op \in {"check", "chunker"} /\ lastCache'.op # lastCache.op) =>
          /\ lastCache'.out = "Processed"
          /\ lastCache'.ret = lastCache.ret]_vars

\* C22, amended: for a video given as a file path, and with ffmpeg found,
\* the cache checks of the two nodes give the same answer, the same
\* directory and the same store on every store and file system a call
\* finds, and the call made (of either node) answers what both give: it
\* answers Processed with the recorded directory and leaves the store as it
\* was on a hit, and has removed the entry when it was stale.
C22_ResolveAgreeOnPath ==
    [][ReachedResolve(lastCache') =>
          LET h == lastCache'.hash
              db == OpenDb(mem["processed"], disk[BackingFile("processed")],
                           0, "failEarly")
              c == CheckResolve(db, dirs, h)
              k == ChunkerResolve(db, dirs, h)
          IN /\ c.hit = k.hit /\ c.dir = k.dir /\ c.db.data = k.db.data
             /\ lastCache'.hit = c.hit
             /\ lastCache'.dir = c.dir
             /\ (lastCache'.out = "Processed") = c.hit
             /\ lastCache'.gone = (h \notin DOMAIN c.db.data.doc)
             /\ c.hit => /\ lastCache'.ret = c.dir
                         /\ mem' = mem
                         /\ c.db.data = mem["processed"]
             /\ lastCache'.op = "check" => mem'["processed"] = k.db.data]_vars

\* VideoFPSChunker found the entry of its video stale, removed it, and went
\* on to chunk the video again.
C22_Witness ==
    /\ lastCache.op = "chunker" /\ lastCache.out = "Chunked"
    /\ lastCache.known /\ ~lastCache.hit /\ lastCache.gone
    /\ lastCache.rec \in Dirs

\* C23 (as stated): the total_chunks VideoFPSChunker returns on a cache hit
\* equals the total_chunks returned by the execution that produced and
\* recorded the chunk directory, when no chunk file was deleted in between.
\* Here the hit follows the producing execution at once.
C23_ChunkCountStable ==
    [][(/\ lastCache.op = "chunker" /\ lastCache.out = "Chunked"
        /\ lastCache'.op = "chunker" /\ lastCache'.out = "Processed") =>
          lastCache'.total = lastCache.total]_vars

\* C25: for every call on n >= 1 items that returns, the current_index
\* output equals the index of the item get_next_image served and lies in
\* 0..n-1, whatever position was stored (a position >= n included) and
\* also for n = 1.
C25_ReportedIndexIsServed ==
    (last.op = "execute" /\ last.out = "index") =>
        /\ last.n >= 1
        /\ last.cur = last.idx
        /\ 0 <= last.cur /\ last.cur < last.n

\* A call on a single item after a run over MaxLen items that had stored
\* position MaxLen - 1 in the file: get_next_image wrapped the position and
\* loader.index to 0, current_index was -1 and was reported as n - 1 = 0.
C25_Witness ==
    /\ last.op = "execute" /\ last.out = "index" /\ last.n = 1
    /\ last.cur = 0 /\ last.idx = 0
    /\ Pos(mem["image"], "L1") = 0
    /\ run[ImageL1].start = "none"
    /\ dlen[ImageL1] = MaxLen
    /\ Pos(Load(disk[BackingFile("image")]), "L1") = MaxLen - 1
    /\ Triple(Load(disk[BackingFile("image")]), "L1").pattern
          = Triple(mem["image"], "L1").pattern

\* C26: two callers with different paths and patterns share a label.  A
\* call that follows a call of the other caller finds the other caller's
\* path stored: when it returns an index, the index is 0 and the position
\* it leaves is 1 mod n, so under alternation no caller ever receives an
\* index other than 0.
C26_SharedLabelNoProgress ==
    [][(/\ last'.op = "execute" /\ last'.out = "index"
        /\ Triple(mem["image"], "L1").path # Triple(mem'["image"], "L1").path) =>
          /\ last'.idx = 0
          /\ last'.cur = 0
          /\ Pos(mem'["image"], "L1") = 1 % last'.n]_vars

\* Caller B's call right after a call of caller A that had advanced A's
\* position to 1 (still in the file, B's saves failed): B's call reset the
\* label and returned 0.
C26_Witness ==
    /\ last.op = "execute" /\ last.out = "index" /\ last.idx = 0
    /\ last.n = MaxLen
    /\ run[ImageL1].start = "reset" /\ run[ImageL1].k = 1
    /\ run[ImageL1].path = "pB"
    /\ Triple(mem["image"], "L1") = [counter |-> 1, path |-> "pB", pattern |-> "g2"]
    /\ Triple(Load(disk[BackingFile("image")]), "L1")
          = [counter |-> 1, path |-> "pA", pattern |-> "g1"]

\* ------------------------------------------------- chunk loop properties
\* The frames of the chunks planned so far.
RECURSIVE SumFrames(_)
SumFrames(chunks) ==
    IF chunks = <<>> THEN 0
    ELSE SumFrames(SubSeq(chunks, 1, Len(chunks) - 1)) + chunks[Len(chunks)].frames

\* C24: for total_frames >= 1 (and frames_per_chunk >= 1) the loop plans
\* num_chunks = ceil(total_frames / frames_per_chunk) chunks; the k-th
\* chunk (k = 0, 1, ...) starts at frame k * frames_per_chunk and holds
\* min(frames_per_chunk, total_frames - k * frames_per_chunk) frames, which
\* is between 1 and frames_per_chunk; each chunk starts where the one
\* before it ends, and the frames of all chunks sum to total_frames.
C24_ChunkingPreservesFrames ==
    (plan.total >= 1 /\ plan.fpc >= 1) =>
        /\ plan.num * plan.fpc >= plan.total
        /\ (plan.num - 1) * plan.fpc < plan.total
        /\ Len(plan.chunks) <= plan.num
        /\ \A i \in DOMAIN plan.chunks :
              /\ plan.chunks[i].start = (i - 1) * plan.fpc
              /\ plan.chunks[i].frames =
                    (IF i * plan.fpc <= plan.total THEN plan.fpc
                     ELSE plan.total - (i - 1) * plan.fpc)
              /\ 1 <= plan.chunks[i].frames
              /\ plan.chunks[i].frames <= plan.fpc
              /\ i > 1 => plan.chunks[i].start
                             = plan.chunks[i - 1].start + plan.chunks[i - 1].frames
        /\ Len(plan.chunks) = plan.num => SumFrames(plan.chunks) = plan.total

\* Seven frames in chunks of three: the loop has planned three chunks, of
\* 3, 3 and 1 frames, starting at frames 0, 3 and 6.
C24_Witness ==
    /\ plan.total = 7 /\ plan.fpc = 3 /\ plan.num = 3
    /\ plan.chunks = <<[start |-> 0, frames |-> 3], [start |-> 3, frames |-> 3],
                       [start |-> 6, frames |-> 1]>>

\* ------------------------------------------- concatenation properties
\* The counters of the files named <prefix>_<digits>.mp4 in a directory.
CountersOf(files, prefix) ==
    {c \in 0..(10 * MaxCounter + 9) :
        \E part \in {Digits(c), Format04d(c)} :
            prefix \o <<"_">> \o part \o Ext \in files}

\* C27 (as stated): a call that gets as far as choosing its output file
\* takes counter 1 when the directory holds no file <prefix>_<digits>.mp4
\* and the largest such counter plus 1 otherwise, and its output file
\* <prefix>_<counter:04d>.mp4 was not in the directory before the call.
C27_NeverOverwrites ==
    [][(concat'.op = "concat" /\ concat'.out # "NoVideos") =>
          LET counters == CountersOf(concat.files, concat'.prefix)
          IN /\ concat'.counter =
                   (IF counters = {} THEN 1
                    ELSE (CHOOSE c \in counters : \A d \in counters : d <= c) + 1)
             /\ concat'.output = OutputFilename(concat'.prefix, concat'.counter)
             /\ ~concat'.existed
             /\ concat'.output \notin concat.files]_vars

\* --------------------------------------------- accumulator properties
\* C28: every call of ImageBatchAccumulator or
\* ConditionalImageBatchAccumulator that returns gives total_frames equal to
\* the number of frames of the batch it returns.  A call that does not add
\* returns the current batch as it is, or an empty batch and total 0 when
\* there is none; a call that adds returns the frames of the current batch
\* (none when there is no current batch) followed by those of new_batch,
\* and total_frames is the sum of the two counts.
C28_TotalFramesIsBatchLength ==
    [][(acc'.op \in {"acc", "cond"} /\ acc'.out = "ok") =>
          LET cur == IF acc'.fed THEN acc.batch ELSE NoneBatch
          IN /\ acc'.total = Len(acc'.batch.frames)
             /\ acc'.batch.kind = "tensor"
             /\ (~acc'.adding /\ cur.kind = "tensor") => acc'.batch = cur
             /\ (~acc'.adding /\ cur.kind = "None") =>
                   (acc'.batch.frames = <<>> /\ acc'.total = 0)
             /\ acc'.adding =>
                   /\ acc'.batch.frames = cur.frames \o acc'.new.frames
                   /\ acc'.total = Len(cur.frames) + Len(acc'.new.frames)]_vars

\* An accumulation in which two batches were added, the second, of one
\* frame, by the conditional node onto two frames: the node returned the
\* three frames in order and total_frames 3.
C28_Witness ==
    /\ acc.op = "cond" /\ acc.out = "ok" /\ acc.fed /\ acc.adding
    /\ acc.added = 2
    /\ acc.new.frames = <<"y">>
    /\ acc.batch.frames = <<"x", "x", "y">>
    /\ acc.total = 3

\* C29 (as stated): in an accumulation made of calls of the conditional
\* node only, each fed with the batch the call before returned, the
\* chunks_added output equals the number of new_batch inputs joined into
\* the accumulated batch so far.
C29_ChunksAddedCountsAdds ==
    (acc.op = "cond" /\ acc.out = "ok" /\ acc.cond) => acc.chunks = acc.added

====
